---- MODULE Spec2Model ----
(***************************************************************************)
(* The DPS310 driver (adafruit_dps310.py) as a state machine.              *)
(*                                                                         *)
(*   Spec     the constructor: identity check, soft reset, the two         *)
(*            readiness polls, the 18 calibration byte reads and the       *)
(*            decoding of the coefficients, with the device and another    *)
(*            user of the shared bus as the environment.                   *)
(*   SpecApi  the public operations (mode setter, the two channel          *)
(*            configurations, the pressure and temperature reads) on the   *)
(*            object as the constructor leaves it.                         *)
(*   SpecConfig  the two channel configurations on every pair of           *)
(*            arguments, out-of-range rates included.                      *)
(*   SpecTC   the static method _twos_complement on bounded inputs.        *)
(***************************************************************************)
EXTENDS Integers, Sequences

(* ------------------------------------------------------------------ *)
(* Program constants                                                   *)
(* ------------------------------------------------------------------ *)
_DPS310_DEVICE_ID == 16
_DPS310_PRSCFG == 6
_DPS310_TMPCFG == 7
_DPS310_MEASCFG == 8
_DPS310_CFGREG == 9
_DPS310_RESET == 12
_DPS310_PRODREVID == 13
SOFT_RESET_CMD == 137
CALIB_BASE == 16
CALIB_LEN == 18
COUNT_8 == 3
RATE_64_HZ == 6

(* Python's None, the value __init__ gives every attribute it declares,   *)
(* and an attribute bound to the integer v.                               *)
None == <<>>
Int_(v) == <<v>>
ValueOf(a) == a[1]

(* Mode.add_values: the keys of Mode.string *)
Mode_string == {0, 1, 2, 5, 6, 7}

is_valid_range(string, value) == value \in 0..7
(* CV.is_valid: value in cls.string *)
is_valid(string, value) == value \in string

_oversample_scalefactor ==
  <<524288, 1572864, 3670016, 7864320, 253952, 516096, 1040384, 2088960>>

(* The names an instance of DPS310 resolves besides its data attributes:   *)
(* the methods, properties and register descriptors of the class body.     *)
(* The sign extension is defined under the name _twos_complement only.     *)
DPS310_attrs ==
  {"initialize", "reset", "pressure", "temperature", "sensor_ready",
   "temperature_ready", "pressure_ready", "mode", "pressure_configuration",
   "temperature_configuration", "_twos_complement", "_read_calibration"}

HasAttr(name) == name \in DPS310_attrs

(* ------------------------------------------------------------------ *)
(* Bounds of the model                                                 *)
(* ------------------------------------------------------------------ *)
MaxPolls == 2      \* polls that find a ready bit still clear
MaxOther == 1      \* transactions of another user of the bus
MaxArg == 8        \* arguments of the public operations are drawn from 0..MaxArg
TCSpread == 16     \* half-width of the windows of inputs of _twos_complement

(* ------------------------------------------------------------------ *)
(* Integer bit operations (Python's &, |, <<, >> on non-negative ints)  *)
(* ------------------------------------------------------------------ *)
RECURSIVE Pow2(_)
Pow2(n) == IF n = 0 THEN 1 ELSE 2 * Pow2(n - 1)

RECURSIVE BitAnd(_, _)
BitAnd(a, b) ==
  IF a = 0 \/ b = 0 THEN 0
  ELSE (IF a % 2 = 1 /\ b % 2 = 1 THEN 1 ELSE 0) + 2 * BitAnd(a \div 2, b \div 2)

RECURSIVE BitOr(_, _)
BitOr(a, b) ==
  IF a = 0 THEN b
  ELSE IF b = 0 THEN a
  ELSE (IF a % 2 = 1 \/ b % 2 = 1 THEN 1 ELSE 0) + 2 * BitOr(a \div 2, b \div 2)

Shl(a, n) == a * Pow2(n)
Shr(a, n) == a \div Pow2(n)

(* DPS310._twos_complement                                              *)
_twos_complement_offbyone(val, bits) ==
  IF BitAnd(val, Shl(1, bits - 1)) # 0 THEN val - (Shl(1, bits) - 1) ELSE val
_twos_complement(val, bits) ==
  IF BitAnd(val, Shl(1, bits - 1)) # 0 THEN val - Shl(1, bits) ELSE val

(* The packed fields of _read_calibration, before sign extension.       *)
packed_c0(c) == BitOr(Shl(c[1], 4), BitAnd(Shr(c[2], 4), 15))
packed_c1(c) == BitOr(Shl(BitAnd(c[2], 15), 8), c[3])
packed_c00(c) == BitOr(BitOr(Shl(c[4], 12), Shl(c[5], 4)), BitAnd(Shr(c[6], 4), 15))
packed_c10(c) == BitOr(BitOr(Shl(BitAnd(c[6], 15), 16), Shl(c[7], 8)), c[8])
packed16(c, i) == BitOr(Shl(c[i + 1], 8), c[i + 2])

(* ------------------------------------------------------------------ *)
(* Register descriptors (adafruit_register): a read-modify-write of the *)
(* addressed byte. The value is shifted and or-ed in without masking.   *)
(* ------------------------------------------------------------------ *)
BitMask(num_bits, lowest_bit) == Shl(Pow2(num_bits) - 1, lowest_bit)

RWBits_get(reg, num_bits, lowest_bit) == Shr(reg, lowest_bit) % Pow2(num_bits)

RWBits_set(reg, num_bits, lowest_bit, value) ==
  BitOr(BitAnd(reg, 255 - BitMask(num_bits, lowest_bit)), Shl(value, lowest_bit)) % 256

RWBit_get(reg, bit) == RWBits_get(reg, 1, bit) = 1

RWBit_set(reg, bit, value) ==
  IF value THEN BitOr(reg, Shl(1, bit)) ELSE BitAnd(reg, 255 - Shl(1, bit))

(* ------------------------------------------------------------------ *)
(* State                                                               *)
(* ------------------------------------------------------------------ *)
VARIABLES
  pc,       \* position of the constructor, "raised" once an exception has ended it
  exc,      \* the exception the constructor or the last operation raised
  self,     \* the data attributes of the driver object
  regs,     \* the device's registers 0x06..0x09
  devId,    \* the device's product/revision ID register 0x0D
  calib,    \* the device's 18 calibration bytes 0x10..0x21
  srcBit,   \* bit 7 of the device's register 0x28
  bus,      \* holder of the bus lock
  log,      \* bus events in order
  coeffs,   \* the calibration bytes read so far
  polls,    \* polls that found the bit clear
  others,   \* transactions of the other bus user
  lastOp,   \* the public operation called last
  lastArgs, \* per channel, the (rate, oversample) of its last configuration
  numer,    \* the last temperature division: <<raw reading, numerator>>
  io,       \* bus reads and writes issued by the last public operation
  tcIn,     \* (SpecTC) the input of _twos_complement
  tcOut     \* (SpecTC) its result

vars == <<pc, exc, self, regs, devId, calib, srcBit, bus, log, coeffs, polls,
          others, lastOp, lastArgs, numer, io, tcIn, tcOut>>

RegAddrs == {_DPS310_PRSCFG, _DPS310_TMPCFG, _DPS310_MEASCFG, _DPS310_CFGREG}

(* __init__, lines 181-193 *)
SelfInit ==
  [_pressure_scale |-> None, _temp_scale |-> None,
   _c0 |-> None, _c1 |-> None, _c00 |-> None, _c10 |-> None, _c01 |-> None,
   _c11 |-> None, _c20 |-> None, _c21 |-> None, _c30 |-> None]

CoefNames == {"_c0", "_c1", "_c00", "_c10", "_c01", "_c11", "_c20", "_c21", "_c30"}

(* Calibration memories the device may hold. *)
CalibFixtures ==
  { [i \in 1..18 |-> 0],
    [i \in 1..18 |-> 255],
    <<128, 7, 255, 127, 255, 248, 0, 1, 128, 0, 127, 255, 0, 1, 255, 254, 18, 52>> }

DeviceIds == {_DPS310_DEVICE_ID, 0, 17}

ReadEv(addr) == <<"R", addr>>
WriteEv(addr, value) == <<"W", addr, value>>
OtherEv == <<"X">>

coefficients_ready_bit == 7
sensor_ready_bit == 6

TCNone == [val |-> 0, bits |-> 0]

Channels == {"pressure", "temperature"}

Init ==
  /\ pc = "check_id"
  /\ exc = "none"
  /\ self = SelfInit
  /\ regs \in {[a \in RegAddrs |-> IF a = _DPS310_MEASCFG THEN m ELSE 0] : m \in {0, 192, 247}}
  /\ devId \in DeviceIds
  /\ calib \in CalibFixtures
  /\ srcBit \in BOOLEAN
  /\ bus = "free"
  /\ log = <<>>
  /\ coeffs = <<>>
  /\ polls = 0
  /\ others = 0
  /\ lastOp = "none"
  /\ lastArgs = [ch \in Channels |-> None]
  /\ numer = None
  /\ io = [reads |-> 0, writes |-> 0]
  /\ tcIn = TCNone
  /\ tcOut = None

ApiVars == <<lastOp, lastArgs, numer, io>>
TCVars == <<tcIn, tcOut>>
DeviceConsts == <<devId, calib, srcBit>>

(* ------------------------------------------------------------------ *)
(* The constructor                                                     *)
(* ------------------------------------------------------------------ *)
device_id_mismatch_never(id) == FALSE
(* line 179: self._device_id != _DPS310_DEVICE_ID *)
device_id_mismatch(id) == id # _DPS310_DEVICE_ID

(* __init__: the identity check, then the attributes *)
CheckId ==
  /\ pc = "check_id"
  /\ bus = "free"
  /\ log' = Append(log, ReadEv(_DPS310_PRODREVID))
  /\ IF device_id_mismatch(devId)
       THEN pc' = "raised" /\ exc' = "RuntimeError"
       ELSE pc' = "reset" /\ exc' = exc
  /\ self' = SelfInit
  /\ UNCHANGED <<regs, bus, coeffs, polls, others>>
  /\ UNCHANGED <<DeviceConsts, ApiVars, TCVars>>

(* reset(): self._reset = 0x89; the device clears its registers *)
Reset ==
  /\ pc = "reset"
  /\ bus = "free"
  /\ log' = Append(log, WriteEv(_DPS310_RESET, SOFT_RESET_CMD))
  /\ regs' = [a \in RegAddrs |-> 0]
  /\ pc' = "wait_sensor"
  /\ UNCHANGED <<exc, self, bus, coeffs, polls, others>>
  /\ UNCHANGED <<DeviceConsts, ApiVars, TCVars>>

(* one evaluation of a polling loop's condition on bit `bit` of MEASCFG *)
Poll(at, bit, next) ==
  /\ pc = at
  /\ bus = "free"
  /\ log' = Append(log, ReadEv(_DPS310_MEASCFG))
  /\ IF RWBit_get(regs[_DPS310_MEASCFG], bit)
       THEN pc' = next /\ polls' = polls
       ELSE polls < MaxPolls /\ pc' = pc /\ polls' = polls + 1
  /\ UNCHANGED <<exc, self, regs, bus, coeffs, others>>
  /\ UNCHANGED <<DeviceConsts, ApiVars, TCVars>>

(* reset(): while not self._sensor_ready *)
PollSensorReady == Poll("wait_sensor", sensor_ready_bit, "wait_coef")

(* _read_calibration(): while not self._coefficients_ready *)
PollCoefficientsReady == Poll("wait_coef", coefficients_ready_bit, "calib_lock")

BusAfterWith_leak == "driver"
(* leaving a `with self.i2c_device` block releases the bus *)
BusAfterWith == "free"

(* _read_calibration(): with self.i2c_device as i2c *)
CalibLock ==
  /\ pc = "calib_lock"
  /\ bus = "free"
  /\ bus' = "driver"
  /\ pc' = "calib_xfer"
  /\ UNCHANGED <<exc, self, regs, log, coeffs, polls, others>>
  /\ UNCHANGED <<DeviceConsts, ApiVars, TCVars>>

(* _read_calibration(): write_then_readinto, coeffs[offset] = buffer[1] *)
CalibByte ==
  /\ pc = "calib_xfer"
  /\ log' = Append(log, ReadEv(CALIB_BASE + Len(coeffs)))
  /\ coeffs' = Append(coeffs, calib[Len(coeffs) + 1])
  /\ bus' = BusAfterWith
  /\ pc' = IF Len(coeffs') = CALIB_LEN THEN "decode" ELSE "calib_lock"
  /\ UNCHANGED <<exc, self, regs, polls, others>>
  /\ UNCHANGED <<DeviceConsts, ApiVars, TCVars>>

(* _read_calibration(): the transport raises inside the with block *)
CalibBusFailure ==
  /\ pc = "calib_xfer"
  /\ bus' = BusAfterWith
  /\ pc' = "raised"
  /\ exc' = "OSError"
  /\ UNCHANGED <<self, regs, log, coeffs, polls, others>>
  /\ UNCHANGED <<DeviceConsts, ApiVars, TCVars>>

(* _read_calibration(), lines 315-330, as far as the interpreter gets:   *)
(* line 316 looks up self.twos_complement. The rest of initialize()      *)
(* (lines 206-212) follows only where that lookup resolves.              *)
Decoded(c) ==
  IF HasAttr("twos_complement")
    THEN [self EXCEPT
            !._c0 = Int_(_twos_complement(packed_c0(c), 12)),
            !._c1 = Int_(_twos_complement(packed_c1(c), 12)),
            !._c00 = Int_(_twos_complement(packed_c00(c), 20)),
            !._c10 = Int_(_twos_complement(packed_c10(c), 20)),
            !._c01 = Int_(_twos_complement(packed16(c, 8), 16)),
            !._c11 = Int_(_twos_complement(packed16(c, 10), 16)),
            !._c20 = Int_(_twos_complement(packed16(c, 12), 16)),
            !._c21 = Int_(_twos_complement(packed16(c, 14), 16)),
            !._c30 = Int_(_twos_complement(packed16(c, 16), 16))]
    ELSE [self EXCEPT !._c0 = Int_(packed_c0(c))]

Decode ==
  /\ pc = "decode"
  /\ self' = Decoded(coeffs)
  /\ IF HasAttr("twos_complement")
       THEN pc' = "configure" /\ exc' = exc
       ELSE pc' = "raised" /\ exc' = "AttributeError"
  /\ UNCHANGED <<regs, bus, log, coeffs, polls, others>>
  /\ UNCHANGED <<DeviceConsts, ApiVars, TCVars>>

(* The constructor is still running. *)
Running ==
  pc \in {"check_id", "reset", "wait_sensor", "wait_coef", "calib_lock",
          "calib_xfer", "decode"}

(* The device raises a readiness bit of MEASCFG after the reset. *)
DeviceReady ==
  /\ pc \in {"wait_sensor", "wait_coef"}
  /\ \E bit \in {sensor_ready_bit, coefficients_ready_bit} :
       /\ ~RWBit_get(regs[_DPS310_MEASCFG], bit)
       /\ regs' = [regs EXCEPT ![_DPS310_MEASCFG] = RWBit_set(@, bit, TRUE)]
  /\ UNCHANGED <<pc, exc, self, bus, log, coeffs, polls, others>>
  /\ UNCHANGED <<DeviceConsts, ApiVars, TCVars>>

(* Another user of the shared bus completes a transaction of its own. *)
OtherBusUser ==
  /\ Running
  /\ bus = "free"
  /\ others < MaxOther
  /\ others' = others + 1
  /\ log' = Append(log, OtherEv)
  /\ UNCHANGED <<pc, exc, self, regs, bus, coeffs, polls>>
  /\ UNCHANGED <<DeviceConsts, ApiVars, TCVars>>

Next ==
  \/ CheckId
  \/ Reset
  \/ PollSensorReady
  \/ PollCoefficientsReady
  \/ CalibLock
  \/ CalibByte
  \/ CalibBusFailure
  \/ Decode
  \/ DeviceReady
  \/ OtherBusUser

Spec == Init /\ [][Next]_vars

(* ------------------------------------------------------------------ *)
(* The public operations, on the object the constructor leaves          *)
(* ------------------------------------------------------------------ *)
(* The bus events of a constructor run that met no clear ready bit and   *)
(* no other bus user.                                                    *)
ConstructorLog ==
  <<ReadEv(_DPS310_PRODREVID), WriteEv(_DPS310_RESET, SOFT_RESET_CMD),
    ReadEv(_DPS310_MEASCFG), ReadEv(_DPS310_MEASCFG)>>
  \o [i \in 1..CALIB_LEN |-> ReadEv(CALIB_BASE + i - 1)]

ApiCalib == <<128, 7, 255, 127, 255, 248, 0, 1, 128, 0, 127, 255, 0, 1, 255, 254, 18, 52>>

(* The state in which __init__ ends once the identity has been verified:  *)
(* the exception of line 316 leaves the scale factors and c1..c30 None    *)
(* and c0 the unsigned packed field. __init__ never returns normally, so  *)
(* this is the only object the operations below can be called on (from a  *)
(* subclass that catches the exception, or through the traceback).        *)
(* The transport is taken not to fail during these operations.            *)
ConstructorExit ==
  /\ pc = "raised"
  /\ exc = "AttributeError"
  /\ self = [SelfInit EXCEPT !._c0 = Int_(packed_c0(calib))]
  /\ regs = [a \in RegAddrs |-> IF a = _DPS310_MEASCFG THEN 192 ELSE 0]
  /\ devId = _DPS310_DEVICE_ID
  /\ bus = "free"
  /\ coeffs = calib
  /\ lastOp = "none"
  /\ lastArgs = [ch \in Channels |-> None]
  /\ numer = None
  /\ io = [reads |-> 0, writes |-> 0]
  /\ tcIn = TCNone
  /\ tcOut = None

InitApi ==
  /\ calib = ApiCalib
  /\ srcBit \in BOOLEAN
  /\ log = ConstructorLog
  /\ polls = 0
  /\ others = 0
  /\ ConstructorExit

Args == 0..MaxArg
RateArgs == {0, RATE_64_HZ, MaxArg}
RawValues == {0, 6636321, 8388607, 8388608, 16777215}

(* An operation is called on an object whose identity check has passed,   *)
(* after the constructor has ended.                                       *)
Callable == pc = "raised" /\ devId = _DPS310_DEVICE_ID /\ bus = "free"

ConstructorVars == <<pc, bus, log, coeffs, polls, others>>

(* mode setter *)
mode_setter(value) ==
  /\ Callable
  /\ lastOp' = "mode"
  /\ numer' = None
  /\ IF ~is_valid(Mode_string, value)
       THEN /\ exc' = "AttributeError"
            /\ regs' = regs
            /\ io' = [reads |-> 0, writes |-> 0]
       ELSE /\ exc' = "none"
            /\ regs' = [regs EXCEPT ![_DPS310_MEASCFG] = RWBits_set(@, 3, 0, value)]
            /\ io' = [reads |-> 1, writes |-> 1]
  /\ UNCHANGED <<self, lastArgs>>
  /\ UNCHANGED <<ConstructorVars, DeviceConsts, TCVars>>

(* oversample > Samples.COUNT_8 *)
shift_needed(oversample) == oversample > COUNT_8

scale_lookup_shifted(oversample) ==
  IF oversample \in 0..6 THEN _oversample_scalefactor[oversample + 2]
  ELSE IF oversample = 7 THEN _oversample_scalefactor[1] ELSE 0
(* self._oversample_scalefactor[oversample]: 0 stands for IndexError *)
scale_lookup(oversample) ==
  IF oversample + 1 \in DOMAIN _oversample_scalefactor
    THEN _oversample_scalefactor[oversample + 1]
    ELSE 0

(* pressure_configuration *)
pressure_configuration(rate, oversample) ==
  /\ Callable
  /\ lastOp' = "pressure_configuration"
  /\ lastArgs' = [lastArgs EXCEPT !["pressure"] = <<rate, oversample>>]
  /\ numer' = None
  /\ LET r1 == [regs EXCEPT ![_DPS310_PRSCFG] = RWBits_set(@, 3, 4, rate)]
         r2 == [r1 EXCEPT ![_DPS310_PRSCFG] = RWBits_set(@, 4, 0, oversample)]
         r3 == [r2 EXCEPT ![_DPS310_CFGREG] = RWBit_set(@, 2, shift_needed(oversample))]
     IN /\ regs' = r3
        /\ io' = [reads |-> 3, writes |-> 3]
        /\ IF scale_lookup(oversample) = 0
             THEN exc' = "IndexError" /\ self' = self
             ELSE /\ exc' = "none"
                  /\ self' = [self EXCEPT !._pressure_scale = Int_(scale_lookup(oversample))]
  /\ UNCHANGED <<ConstructorVars, DeviceConsts, TCVars>>

(* temperature_configuration *)
temperature_configuration(rate, oversample) ==
  /\ Callable
  /\ lastOp' = "temperature_configuration"
  /\ lastArgs' = [lastArgs EXCEPT !["temperature"] = <<rate, oversample>>]
  /\ numer' = None
  /\ LET r1 == [regs EXCEPT ![_DPS310_TMPCFG] = RWBits_set(@, 3, 4, rate)]
         r2 == [r1 EXCEPT ![_DPS310_TMPCFG] = RWBits_set(@, 4, 0, oversample)]
         r3 == [r2 EXCEPT ![_DPS310_CFGREG] = RWBit_set(@, 3, shift_needed(oversample))]
         r4 == [r3 EXCEPT ![_DPS310_TMPCFG] = RWBit_set(@, 7, srcBit)]
     IN IF scale_lookup(oversample) = 0
          THEN /\ exc' = "IndexError"
               /\ self' = self
               /\ regs' = r2
               /\ io' = [reads |-> 2, writes |-> 2]
          ELSE /\ exc' = "none"
               /\ self' = [self EXCEPT !._temp_scale = Int_(scale_lookup(oversample))]
               /\ regs' = r4
               /\ io' = [reads |-> 5, writes |-> 4]
  /\ UNCHANGED <<ConstructorVars, DeviceConsts, TCVars>>

pressure_exc_silent(o) == "none"
(* pressure: the exception the property ends with on attributes o *)
pressure_exc(o) ==
  IF ~HasAttr("twos_complement") THEN "AttributeError"
  ELSE IF o._temp_scale = None \/ o._c1 = None \/ o._pressure_scale = None
          \/ \E n \in CoefNames : o[n] = None
    THEN "TypeError"
    ELSE "none"

(* pressure: the register reads issued before the property ends *)
pressure_reads == IF HasAttr("twos_complement") THEN 2 ELSE 1

(* pressure *)
pressure(temp_reading) ==
  /\ Callable
  /\ lastOp' = "pressure"
  /\ exc' = pressure_exc(self)
  /\ io' = [reads |-> pressure_reads, writes |-> 0]
  /\ numer' = IF HasAttr("twos_complement") /\ self._temp_scale # None
                THEN <<temp_reading, _twos_complement(temp_reading, 24)>>
                ELSE None
  /\ UNCHANGED <<self, regs, lastArgs>>
  /\ UNCHANGED <<ConstructorVars, DeviceConsts, TCVars>>

(* temperature: the count divided by self._temp_scale *)
temperature_count(raw) == raw

(* temperature *)
temperature(raw) ==
  /\ Callable
  /\ lastOp' = "temperature"
  /\ io' = [reads |-> 1, writes |-> 0]
  /\ numer' = IF self._temp_scale = None THEN None ELSE <<raw, temperature_count(raw)>>
  /\ exc' = IF self._temp_scale = None \/ self._c1 = None \/ self._c0 = None
              THEN "TypeError"
              ELSE "none"
  /\ UNCHANGED <<self, regs, lastArgs>>
  /\ UNCHANGED <<ConstructorVars, DeviceConsts, TCVars>>

(* Every public operation, the configurations at the rate initialize() uses. *)
NextApi ==
  \/ \E value \in Args : mode_setter(value)
  \/ \E oversample \in Args : pressure_configuration(RATE_64_HZ, oversample)
  \/ \E oversample \in Args : temperature_configuration(RATE_64_HZ, oversample)
  \/ \E raw \in RawValues : pressure(raw)
  \/ \E raw \in RawValues : temperature(raw)

SpecApi == InitApi /\ [][NextApi]_vars

(* The two channel configurations on every pair of arguments. *)
NextConfig ==
  \/ \E rate \in RateArgs, oversample \in Args : pressure_configuration(rate, oversample)
  \/ \E rate \in RateArgs, oversample \in Args : temperature_configuration(rate, oversample)

SpecConfig == InitApi /\ [][NextConfig]_vars


(* ------------------------------------------------------------------ *)
(* _twos_complement on its own                                         *)
(* ------------------------------------------------------------------ *)
TCWidths == {12, 16, 20, 24}

(* every 12-bit pattern; at the wider widths the patterns around 0,     *)
(* around the sign bit and below 2^bits                                 *)
TCValues(bits) ==
  IF bits = 12 THEN 0..(Pow2(12) - 1)
  ELSE (0..TCSpread)
       \cup ((Pow2(bits - 1) - TCSpread)..(Pow2(bits - 1) + TCSpread))
       \cup ((Pow2(bits) - 1 - TCSpread)..(Pow2(bits) - 1))

InitTC ==
  /\ pc = "check_id"
  /\ exc = "none"
  /\ self = SelfInit
  /\ regs = [a \in RegAddrs |-> 0]
  /\ devId = _DPS310_DEVICE_ID
  /\ calib = ApiCalib
  /\ srcBit = FALSE
  /\ bus = "free"
  /\ log = <<>>
  /\ coeffs = <<>>
  /\ polls = 0
  /\ others = 0
  /\ lastOp = "none"
  /\ lastArgs = [ch \in Channels |-> None]
  /\ numer = None
  /\ io = [reads |-> 0, writes |-> 0]
  /\ \E bits \in TCWidths : \E val \in TCValues(bits) : tcIn = [val |-> val, bits |-> bits]
  /\ tcOut = None

twos_complement_call ==
  /\ tcOut = None
  /\ tcOut' = Int_(_twos_complement(tcIn.val, tcIn.bits))
  /\ UNCHANGED <<pc, exc, self, regs, bus, log, coeffs, polls, others, tcIn>>
  /\ UNCHANGED <<DeviceConsts, ApiVars>>

NextTC == twos_complement_call

SpecTC == InitTC /\ [][NextTC]_vars

(* ------------------------------------------------------------------ *)
(* Properties                                                          *)
(* ------------------------------------------------------------------ *)
ModeField == RWBits_get(regs[_DPS310_MEASCFG], 3, 0)
RateField(addr) == RWBits_get(regs[addr], 3, 4)
OsField(addr) == RWBits_get(regs[addr], 4, 0)
ShiftBit(bit) == RWBit_get(regs[_DPS310_CFGREG], bit)

ChannelReg(ch) == IF ch = "pressure" THEN _DPS310_PRSCFG ELSE _DPS310_TMPCFG
ChannelShift(ch) == IF ch = "pressure" THEN ShiftBit(2) ELSE ShiftBit(3)
ChannelScale(ch) == IF ch = "pressure" THEN self._pressure_scale ELSE self._temp_scale

(* C1: the mode setter accepts exactly 0, 1, 2, 5, 6, 7: an accepted value  *)
(* ends up in the 3-bit mode field of register 0x08 without an error; any   *)
(* other value raises an error and leaves the mode field as it was.         *)
C1_ModeValidation ==
  [][\A value \in Args :
       mode_setter(value) =>
         IF value \in {0, 1, 2, 5, 6, 7}
           THEN exc' = "none" /\ ModeField' = value
           ELSE exc' # "none" /\ ModeField' = ModeField /\ io'.writes = 0]_vars

C1_Witness ==
  /\ lastOp = "mode"
  /\ exc = "AttributeError"
  /\ ModeField = 7

C2_Unchanged(ch) ==
  /\ exc' # "none"
  /\ RateField(ChannelReg(ch))' = RateField(ChannelReg(ch))
  /\ OsField(ChannelReg(ch))' = OsField(ChannelReg(ch))
  /\ ChannelShift(ch)' = ChannelShift(ch)
  /\ ChannelScale(ch)' = ChannelScale(ch)

(* C2: a channel configuration whose rate or oversample is outside 0..7 is  *)
(* rejected before any register write: it raises an error and the channel's *)
(* rate bits, oversample bits, shift bit and scale factor stay as they were. *)
C2_RejectBeforeWrite ==
  [][\A rate \in RateArgs, oversample \in Args :
       (rate \notin 0..7 \/ oversample \notin 0..7) =>
         /\ pressure_configuration(rate, oversample) => C2_Unchanged("pressure")
         /\ temperature_configuration(rate, oversample) => C2_Unchanged("temperature")]_vars

C3_Table == <<524288, 1572864, 3670016, 7864320, 253952, 516096, 1040384, 2088960>>

C3_Consistent(ch) ==
  (lastArgs[ch] # None /\ lastArgs[ch][2] \in 0..7) =>
    LET i == lastArgs[ch][2] IN
      /\ ChannelScale(ch) = Int_(C3_Table[i + 1])
      /\ OsField(ChannelReg(ch)) = i
      /\ ChannelShift(ch) = (i > 3)

C3_Frame ==
  /\ lastArgs'["pressure"] = lastArgs["pressure"] =>
       ChannelScale("pressure")' = ChannelScale("pressure")
       /\ ChannelShift("pressure")' = ChannelShift("pressure")
  /\ lastArgs'["temperature"] = lastArgs["temperature"] =>
       ChannelScale("temperature")' = ChannelScale("temperature")
       /\ ChannelShift("temperature")' = ChannelShift("temperature")

(* C3: once a channel has been configured with oversample level i in 0..7,  *)
(* its scale factor is entry i of the table, its oversample field is i and  *)
(* its shift bit is set iff i > 3, whatever was configured before; and a    *)
(* configuration of one channel leaves the other channel's scale factor and *)
(* shift bit as they were.                                                  *)
C3_ScaleFollowsOversample ==
  /\ [](C3_Consistent("pressure") /\ C3_Consistent("temperature"))
  /\ [][C3_Frame]_vars

C3_Witness ==
  /\ lastArgs["pressure"] # None
  /\ lastArgs["temperature"] # None
  /\ lastArgs["pressure"][2] = 7
  /\ lastArgs["temperature"][2] = 2
  /\ self._pressure_scale = Int_(2088960)
  /\ self._temp_scale = Int_(3670016)
  /\ ShiftBit(2)
  /\ ~ShiftBit(3)

NotLoaded ==
  \/ self._pressure_scale = None
  \/ self._temp_scale = None
  \/ \E n \in CoefNames : self[n] = None

IsWrite(e) == e[1] = "W"
IsCalibRead(e) == e[1] = "R" /\ e[2] \in 16..33
DriverEvents == SelectSeq(log, LAMBDA e : e[1] # "X")

(* C5: when register 0x0D does not read 0x10, construction ends with the    *)
(* device-not-found error right after that read: the driver issues no       *)
(* register write and no calibration read.                                  *)
C5_NotFoundNoWrite ==
  devId # 16 =>
    /\ pc \in {"check_id", "raised"}
    /\ pc = "raised" => exc = "RuntimeError" /\ DriverEvents = <<ReadEv(13)>>
    /\ \A k \in 1..Len(log) : ~IsWrite(log[k]) /\ ~IsCalibRead(log[k])
    /\ coeffs = <<>>

C5_Witness ==
  /\ pc = "raised"
  /\ exc = "RuntimeError"
  /\ devId = 17
  /\ others > 0

SignExtend(v, w) == IF v < Pow2(w - 1) THEN v ELSE v - Pow2(w)

C6_Expected(c) ==
  [_c0 |-> Int_(SignExtend(packed_c0(c), 12)),
   _c1 |-> Int_(SignExtend(packed_c1(c), 12)),
   _c00 |-> Int_(SignExtend(packed_c00(c), 20)),
   _c10 |-> Int_(SignExtend(packed_c10(c), 20)),
   _c01 |-> Int_(SignExtend(packed16(c, 8), 16)),
   _c11 |-> Int_(SignExtend(packed16(c, 10), 16)),
   _c20 |-> Int_(SignExtend(packed16(c, 12), 16)),
   _c21 |-> Int_(SignExtend(packed16(c, 14), 16)),
   _c30 |-> Int_(SignExtend(packed16(c, 16), 16))]

C6_Range(n) ==
  IF n \in {"_c0", "_c1"} THEN -2048..2047
  ELSE IF n \in {"_c00", "_c10"} THEN -524288..524287
  ELSE -32768..32767

(* C6: once the 18 calibration bytes have been read, the calibration read   *)
(* has raised nothing and each of the nine coefficients is the sign         *)
(* extension of its packed field, within the range of its width.            *)
C6_CalibrationLoaded ==
  (~Running /\ Len(coeffs) = 18) =>
    /\ exc = "none"
    /\ \A n \in CoefNames :
         /\ self[n] # None
         /\ self[n] = C6_Expected(coeffs)[n]
         /\ ValueOf(self[n]) \in C6_Range(n)

(* C7: the temperature read divides the two's-complement count of the       *)
(* 24-bit register value r: r below 2^23, r - 2^24 from 2^23 on.            *)
C7_SignedCount ==
  (lastOp = "temperature" /\ numer # None) =>
    numer[2] = (IF numer[1] < 8388608 THEN numer[1] ELSE numer[1] - 16777216)

WriteAddrs == [k \in 1..Len(SelectSeq(log, IsWrite)) |-> SelectSeq(log, IsWrite)[k][2]]

(* C8: an initialization that met neither an identity mismatch nor a bus    *)
(* failure has ended normally, and its register writes are, in this order:  *)
(* the reset (0x0C), the pressure configuration (0x06, 0x06, 0x09), the     *)
(* temperature configuration (0x07, 0x07, 0x09, 0x07) and the mode (0x08),  *)
(* the 18 calibration reads all coming before the first configuration write. *)
C8_InitializeOrder ==
  (~Running /\ devId = 16 /\ exc # "OSError") =>
    /\ exc = "none"
    /\ WriteAddrs = <<12, 6, 6, 9, 7, 7, 9, 7, 8>>

(* C9: the driver holds the bus from the first calibration byte read to the *)
(* last: no transaction of another bus user lies between two of them.       *)
C9_NoInterleave ==
  \A i, j, k \in 1..Len(log) :
    (i < j /\ j < k /\ IsCalibRead(log[i]) /\ IsCalibRead(log[k])) => log[j] # OtherEv

(* C9, amended: each calibration byte read is an exclusive transaction of   *)
(* its own. While the driver holds the bus the only bus event is its own    *)
(* byte read; the bus is free again after every byte, and on every exit of  *)
(* the calibration read, a bus failure included.                            *)
C9_PerByteExclusive ==
  /\ [](bus = "driver" <=> pc = "calib_xfer")
  /\ [][bus = "driver" =>
          (log' = log \/ log' = Append(log, ReadEv(16 + Len(coeffs))))]_vars

C9_Witness ==
  /\ pc = "raised"
  /\ exc = "OSError"
  /\ bus = "free"
  /\ Len(coeffs) >= 2
  /\ ~C9_NoInterleave

(* C10: for each width w of 12, 16, 20, 24 and each w-bit pattern v, the    *)
(* sign extension r of v lies in -2^(w-1) .. 2^(w-1)-1, its w-bit pattern   *)
(* r mod 2^w is v again, and r = v when v < 2^(w-1).                        *)
C10_RoundTrip ==
  tcOut # None =>
    LET r == ValueOf(tcOut)
        v == tcIn.val
        w == tcIn.bits
    IN /\ r \in (0 - Pow2(w - 1))..(Pow2(w - 1) - 1)
       /\ r % Pow2(w) = v
       /\ v < Pow2(w - 1) => r = v

C10_Witness ==
  /\ tcOut # None
  /\ tcIn.bits = 24
  /\ tcIn.val = 8388608
  /\ ValueOf(tcOut) = 0 - 8388608

====
